---- MODULE Spec2Model ----
(***************************************************************************)
(* Model of .github/scripts/update_mumu_version.py: fetch the download     *)
(* page, parse a version and a date out of it, and rewrite the marker      *)
(* regions of README.md.                                                   *)
(*                                                                         *)
(* Text is a sequence of symbols.  A symbol is a one-character string, or  *)
(* one of the six README markers, or (in page text) the "Last updated"     *)
(* label; a marker cannot overlap another marker or be completed by        *)
(* version or date characters, so treating it as one symbol loses nothing. *)
(***************************************************************************)
EXTENDS Integers, Sequences, FiniteSets, TLC

VARIABLES pc, html, version, date, file, last, prev, fetches, parses, updates, writes

vars == <<pc, html, version, date, file, last, prev, fetches, parses, updates, writes>>

-----------------------------------------------------------------------------
(* Configuration and markers                                               *)

VERSION_START_MARKER == "<!-- MUMU_VERSION_START -->"

VERSION_END_MARKER == "<!-- MUMU_VERSION_END -->"

DATE_START_MARKER == "<!-- MUMU_UPDATE_DATE_START -->"

DATE_END_MARKER == "<!-- MUMU_UPDATE_DATE_END -->"

COMPATIBLE_VERSION_START_MARKER == "<!-- MUMU_COMPATIBLE_VERSION_START -->"

COMPATIBLE_VERSION_END_MARKER == "<!-- MUMU_COMPATIBLE_VERSION_END -->"

Markers ==
  { VERSION_START_MARKER, VERSION_END_MARKER, DATE_START_MARKER, DATE_END_MARKER,
    COMPATIBLE_VERSION_START_MARKER, COMPATIBLE_VERSION_END_MARKER }

\* The three start/end marker pairs.
MarkerPairs ==
  { <<VERSION_START_MARKER, VERSION_END_MARKER>>,
    <<COMPATIBLE_VERSION_START_MARKER, COMPATIBLE_VERSION_END_MARKER>>,
    <<DATE_START_MARKER, DATE_END_MARKER>> }

\* Python's None for an optional string: a value no character sequence equals.
None == <<"None">>

\* The README does not exist (open(..., 'r') raises FileNotFoundError).
NoFile == <<"ENOENT">>

\* Python truthiness of an optional string: neither None nor "".
Truthy(s) == s # None /\ s # <<>>

Digits == {"0", "1", "2", "3", "4", "5", "6", "7", "8", "9"}

\* Characters matched by \s.
Whitespace == {" ", "\n"}

Min(S) == CHOOSE x \in S : \A y \in S : x <= y

\* Index of the first position >= i of s whose symbol is outside Set (Len(s)+1 if none):
\* the end of a greedy run of a character class.
RunEnd(s, i, Set) ==
  LET stop == {j \in i..Len(s) : s[j] \notin Set}
  IN IF stop = {} THEN Len(s) + 1 ELSE Min(stop)

\* Index of the first occurrence of tok in s at or after i, 0 if there is none.
IndexFrom(s, tok, i) ==
  LET hit == {j \in i..Len(s) : s[j] = tok}
  IN IF hit = {} THEN 0 ELSE Min(hit)

-----------------------------------------------------------------------------
(* Regular expressions of the parser                                       *)

\* VERSION_TEXT_PATTERN = V\s*([\d.]+), IGNORECASE: a match starts at i.
VersionMatchAt(s, i) ==
  /\ s[i] \in {"V", "v"}
  /\ LET j == RunEnd(s, i + 1, Whitespace)
     IN RunEnd(s, j, Digits \cup {"."}) > j

\* VERSION_TEXT_PATTERN.search(s): group(1) of the leftmost match, None if no match.
VersionSearch(s) ==
  LET M == {i \in 1..Len(s) : VersionMatchAt(s, i)}
  IN IF M = {} THEN None
     ELSE LET i == Min(M)
              j == RunEnd(s, i + 1, Whitespace)
              k == RunEnd(s, j, Digits \cup {"."})
          IN SubSeq(s, j, k - 1)

\* (\d{4}-\d{2}-\d{2}) matches at position i of s.
DateAt(s, i) ==
  /\ i + 9 <= Len(s)
  /\ \A k \in {0, 1, 2, 3, 5, 6, 8, 9} : s[i + k] \in Digits
  /\ s[i + 4] = "-"
  /\ s[i + 7] = "-"

\* The label alternative of DATE_PATTERNS[0] under IGNORECASE.  The label is one
\* symbol of the page text; it holds no digit and no letter V.
DateLabels == {"Last updated", "LAST UPDATED"}

\* DATE_PATTERNS[0]: label, then [:\s]*, then the date; the start of the date group
\* of the leftmost match, 0 if no match.
LabelledDateStart(s) ==
  LET M == {i \in 1..Len(s) :
              /\ s[i] \in DateLabels
              /\ DateAt(s, RunEnd(s, i + 1, Whitespace \cup {":"}))}
  IN IF M = {} THEN 0 ELSE RunEnd(s, Min(M) + 1, Whitespace \cup {":"})

\* DATE_PATTERNS[1]: the start of the leftmost bare date, 0 if no match.
BareDateStart(s) ==
  LET M == {i \in 1..Len(s) : DateAt(s, i)}
  IN IF M = {} THEN 0 ELSE Min(M)

\* The loop over DATE_PATTERNS: the first pattern that matches wins.
DateSearch(s) ==
  LET a == LabelledDateStart(s)
      b == BareDateStart(s)
  IN IF a # 0 THEN SubSeq(s, a, a + 9)
     ELSE IF b # 0 THEN SubSeq(s, b, b + 9)
     ELSE None

\* str.strip(): drop leading and trailing whitespace.
Strip(s) ==
  LET keep == {i \in 1..Len(s) : s[i] \notin Whitespace}
  IN IF keep = {} THEN <<>>
     ELSE SubSeq(s, Min(keep), CHOOSE m \in keep : \A y \in keep : y <= m)

-----------------------------------------------------------------------------
(* Pages                                                                   *)

D1 == <<"2", "0", "2", "4", "-", "0", "1", "-", "0", "1">>

D2 == <<"2", "0", "2", "4", "-", "0", "1", "-", "0", "2">>

\* Text of the element at VERSION_XPATH: a version after "V " (V 4.1.29 on the live
\* page), a lower-case one inside padding, and text that holds no version.
ElemVersion == <<"V", " ", "1", ".", "2">>

ElemLower == <<" ", "v", "1", " ">>

ElemNoVersion == <<"b">>

\* Visible text before the element: a version token that is not at VERSION_XPATH.
PreVersion == <<"V", "3", " ">>

\* Visible text after the element: a bare date, and a bare date followed by a
\* labelled one.
PostBare == <<" ">> \o D1

PostLabelled == <<" ">> \o D1 \o <<" ", "Last updated", ":", " ">> \o D2

\* fetch_page_content returned None.
FetchFailed == [kind |-> "none", hasElem |-> FALSE, pre |-> <<>>, elem |-> <<>>, post |-> <<>>]

\* A response with an empty body.
EmptyBody == [kind |-> "empty", hasElem |-> FALSE, pre |-> <<>>, elem |-> <<>>, post |-> <<>>]

\* A non-empty body lxml.html.fromstring raises on.
Unparsable == [kind |-> "bad", hasElem |-> FALSE, pre |-> <<>>, elem |-> <<>>, post |-> <<>>]

\* A well-formed page: hasElem is whether tree.xpath(VERSION_XPATH) finds an element.
Page(hasElem, pre, elem, post) ==
  [kind |-> "page", hasElem |-> hasElem, pre |-> pre, elem |-> elem, post |-> post]

\* The well-formed pages the fetch may return.
Pages ==
  { Page(TRUE, <<>>, ElemVersion, <<>>),
    Page(TRUE, PreVersion, ElemLower, PostBare),
    Page(TRUE, <<>>, ElemVersion, PostLabelled),
    Page(TRUE, <<>>, ElemNoVersion, <<>>),
    Page(FALSE, PreVersion, <<>>, <<>>),
    Page(FALSE, PreVersion, <<>>, PostBare),
    Page(FALSE, <<>>, <<>>, PostLabelled) }

\* `if html:` / `if not html_content:`.
HtmlTruthy(h) == h.kind \in {"bad", "page"}

\* lxml.html.tostring(tree, method='text'): the visible text of the page.
TextContent(h) == h.pre \o h.elem \o h.post

\* parse_content: <<found_version, found_date>>.
parse_content(h) ==
  IF ~HtmlTruthy(h) THEN <<None, None>>
  ELSE IF h.kind = "bad" THEN <<None, None>>
  ELSE LET g == IF h.hasElem THEN VersionSearch(Strip(h.elem)) ELSE None
           found_version == IF g = None THEN None ELSE <<"V">> \o g
           found_date == DateSearch(TextContent(h))
       IN <<found_version, found_date>>

-----------------------------------------------------------------------------
(* update_readme                                                           *)

\* re.sub of (START)(.*?)(END) with DOTALL on c from position i on, the template
\* being \1 + repl + \3: the leftmost START that has an END after it matches up to
\* the nearest such END; matching resumes after that END.
RECURSIVE SubFrom(_, _, _, _, _)
SubFrom(c, start, end, repl, i) ==
  LET s == IndexFrom(c, start, i)
      e == IF s = 0 THEN 0 ELSE IndexFrom(c, end, s + 1)
  IN IF e = 0 THEN SubSeq(c, i, Len(c))
     ELSE SubSeq(c, i, s) \o repl \o <<end>> \o SubFrom(c, start, end, repl, e + 1)

\* RegionSub with a greedy group, (START)(.*)(END): the first START matches up to
\* the last END.
RegionSubGreedy(content, start, end, repl) ==
  LET s == IndexFrom(content, start, 1)
      ends == {j \in 1..Len(content) : j > s /\ content[j] = end}
  IN IF s = 0 \/ ends = {} THEN content
     ELSE LET e == CHOOSE m \in ends : \A y \in ends : y <= m
          IN SubSeq(content, 1, s) \o repl \o SubSeq(content, e, Len(content))

\* RegionSub with a template that keeps the old text, \1 + repl + \2\3.
RECURSIVE SubFromKeepOld(_, _, _, _, _)
SubFromKeepOld(c, start, end, repl, i) ==
  LET s == IndexFrom(c, start, i)
      e == IF s = 0 THEN 0 ELSE IndexFrom(c, end, s + 1)
  IN IF e = 0 THEN SubSeq(c, i, Len(c))
     ELSE SubSeq(c, i, s) \o repl \o SubSeq(c, s + 1, e)
            \o SubFromKeepOld(c, start, end, repl, e + 1)

RegionSubKeepOld(content, start, end, repl) == SubFromKeepOld(content, start, end, repl, 1)

\* RegionSub without re.DOTALL: the group does not cross a line break.
RECURSIVE SubFromNoDotAll(_, _, _, _, _)
SubFromNoDotAll(c, start, end, repl, i) ==
  LET s == IndexFrom(c, start, i)
      e == IF s = 0 THEN 0 ELSE IndexFrom(c, end, s + 1)
  IN IF e = 0 THEN SubSeq(c, i, Len(c))
     ELSE IF \E k \in (s + 1)..(e - 1) : c[k] = "\n"
     THEN SubSeq(c, i, s) \o SubFromNoDotAll(c, start, end, repl, s + 1)
     ELSE SubSeq(c, i, s) \o repl \o <<end>> \o SubFromNoDotAll(c, start, end, repl, e + 1)

RegionSubNoDotAll(content, start, end, repl) == SubFromNoDotAll(content, start, end, repl, 1)

\* RegionSub with a template that forgets the end marker, \1 + repl.
RECURSIVE SubFromDropEnd(_, _, _, _, _)
SubFromDropEnd(c, start, end, repl, i) ==
  LET s == IndexFrom(c, start, i)
      e == IF s = 0 THEN 0 ELSE IndexFrom(c, end, s + 1)
  IN IF e = 0 THEN SubSeq(c, i, Len(c))
     ELSE SubSeq(c, i, s) \o repl \o SubFromDropEnd(c, start, end, repl, e + 1)

RegionSubDropEnd(content, start, end, repl) == SubFromDropEnd(content, start, end, repl, 1)

\* regex.sub(template, content) for one marker pair.
RegionSub(content, start, end, repl) == SubFrom(content, start, end, repl, 1)

\* NewContent without the else branch of `if date_str:`: no date, no date update.
NewContentNoFallback(content, version_str, date_str, now) ==
  LET c1 == IF Truthy(version_str)
            THEN RegionSub(content, VERSION_START_MARKER, VERSION_END_MARKER,
                           <<" ">> \o version_str \o <<" ">>)
            ELSE content
      c2 == IF Truthy(version_str)
            THEN RegionSub(c1, COMPATIBLE_VERSION_START_MARKER,
                           COMPATIBLE_VERSION_END_MARKER, <<" ">> \o version_str)
            ELSE c1
  IN IF Truthy(date_str)
     THEN RegionSub(c2, DATE_START_MARKER, DATE_END_MARKER, <<" ">> \o date_str \o <<" ">>)
     ELSE c2

\* The three substitutions of update_readme, in the order of the code; now is what
\* datetime.datetime.now().strftime("%Y-%m-%d") returns.
NewContent(content, version_str, date_str, now) ==
  LET c1 == IF Truthy(version_str)
            THEN RegionSub(content, VERSION_START_MARKER, VERSION_END_MARKER,
                           <<" ">> \o version_str \o <<" ">>)
            ELSE content
      c2 == IF Truthy(version_str)
            THEN RegionSub(c1, COMPATIBLE_VERSION_START_MARKER,
                           COMPATIBLE_VERSION_END_MARKER, <<" ">> \o version_str)
            ELSE c1
  IN IF Truthy(date_str)
     THEN RegionSub(c2, DATE_START_MARKER, DATE_END_MARKER, <<" ">> \o date_str \o <<" ">>)
     ELSE RegionSub(c2, DATE_START_MARKER, DATE_END_MARKER, <<" ">> \o now \o <<" ">>)

\* update_readme without the `content == original_content` test: it always writes.
update_readme_always_writes(f, version_str, date_str, now, writeOk) ==
  IF f = NoFile
  THEN [existed |-> FALSE, computed |-> NoFile, wrote |-> FALSE, failed |-> FALSE,
        ret |-> FALSE, file |-> NoFile]
  ELSE LET content == NewContent(f, version_str, date_str, now)
       IN IF writeOk
          THEN [existed |-> TRUE, computed |-> content, wrote |-> TRUE, failed |-> FALSE,
                ret |-> TRUE, file |-> content]
          ELSE [existed |-> TRUE, computed |-> content, wrote |-> FALSE, failed |-> TRUE,
                ret |-> FALSE, file |-> f]

\* update_readme that opens a missing file as an empty one and creates it.
update_readme_creates(f, version_str, date_str, now, writeOk) ==
  LET old == IF f = NoFile THEN <<>> ELSE f
      content == NewContent(old, version_str, date_str, now)
  IN IF content = old
     THEN [existed |-> TRUE, computed |-> content, wrote |-> FALSE, failed |-> FALSE,
           ret |-> FALSE, file |-> old]
     ELSE IF writeOk
     THEN [existed |-> TRUE, computed |-> content, wrote |-> TRUE, failed |-> FALSE,
           ret |-> TRUE, file |-> content]
     ELSE [existed |-> TRUE, computed |-> content, wrote |-> FALSE, failed |-> TRUE,
           ret |-> FALSE, file |-> old]

\* update_readme on file state f; writeOk is whether open(readme_path, 'w') succeeds.
\* existed: the read succeeded; computed: content at the comparison with
\* original_content (which is f); wrote: f.write ran; failed: IOError was caught;
\* ret: the return value; file: the file state afterwards.
update_readme(f, version_str, date_str, now, writeOk) ==
  IF f = NoFile
  THEN [existed |-> FALSE, computed |-> NoFile, wrote |-> FALSE, failed |-> FALSE,
        ret |-> FALSE, file |-> NoFile]
  ELSE LET content == NewContent(f, version_str, date_str, now)
       IN IF content = f
          THEN [existed |-> TRUE, computed |-> content, wrote |-> FALSE, failed |-> FALSE,
                ret |-> FALSE, file |-> f]
          ELSE IF writeOk
          THEN [existed |-> TRUE, computed |-> content, wrote |-> TRUE, failed |-> FALSE,
                ret |-> TRUE, file |-> content]
          ELSE [existed |-> TRUE, computed |-> content, wrote |-> FALSE, failed |-> TRUE,
                ret |-> FALSE, file |-> f]

-----------------------------------------------------------------------------
(* State                                                                   *)

\* Longest README, in symbols, the model starts from.
MaxDocLen == 4

\* README text the model starts from: markers and line breaks in any arrangement.
DocAlphabet == Markers \cup {"\n"}

Docs == UNION {[1..n -> DocAlphabet] : n \in 0..MaxDocLen}

\* Values of the clock, as strftime("%Y-%m-%d") renders them.
Todays == {D1, D2}

\* No call of update_readme yet.
NoCall ==
  [site |-> "none", v |-> None, d |-> None, now |-> None, existed |-> FALSE,
   orig |-> NoFile, computed |-> NoFile, wrote |-> FALSE, failed |-> FALSE, ret |-> FALSE]

\* One call of update_readme from call site `site` with arguments v, d: the clock is
\* read only on line 128, the file is opened for writing only on line 139.  last
\* records the call: orig is the file state the call found.
CallUpdate(site, v, d) ==
  \E now \in (IF file = NoFile \/ Truthy(d) THEN {None} ELSE Todays), writeOk \in BOOLEAN :
    LET r == update_readme(file, v, d, now, writeOk)
    IN /\ writeOk \/ r.failed
       /\ last' = [site |-> site, v |-> v, d |-> d, now |-> now, existed |-> r.existed,
                   orig |-> file, computed |-> r.computed, wrote |-> r.wrote,
                   failed |-> r.failed, ret |-> r.ret]
       /\ prev' = last
       /\ file' = r.file
       /\ updates' = updates + 1
       /\ writes' = writes + (IF r.wrote \/ r.failed THEN 1 ELSE 0)

Init ==
  /\ pc = "start"
  /\ html = FetchFailed
  /\ version = None
  /\ date = None
  /\ file \in Docs \cup {NoFile}
  /\ last = NoCall
  /\ prev = NoCall
  /\ fetches = 0
  /\ parses = 0
  /\ updates = 0
  /\ writes = 0

\* The script's conditions: which statement runs next.
FetchGuard == pc = "start"

\* if html:
ParseGuard == pc = "fetched" /\ HtmlTruthy(html)

\* else (of `if html:`)
NoFetchGuard == pc = "fetched" /\ ~HtmlTruthy(html)

\* if version or date:
ScrapedGuard == pc = "parsed" /\ (Truthy(version) \/ Truthy(date))

\* else (of `if version or date:`)
NoInfoGuard == pc = "parsed" /\ ~(Truthy(version) \/ Truthy(date))

\* Fetch that tries again after a failure.
FetchRetry ==
  /\ pc = "start"
  /\ html' \in {FetchFailed, EmptyBody, Unparsable} \cup Pages
  /\ fetches' = fetches + 1
  /\ pc' = IF html' = FetchFailed /\ fetches < 2 THEN "start" ELSE "fetched"
  /\ UNCHANGED <<version, date, file, last, prev, parses, updates, writes>>

\* html = fetch_page_content(MUMU_DOWNLOAD_URL): the body, or None on any
\* RequestException.
Fetch ==
  /\ FetchGuard
  /\ html' \in {FetchFailed, EmptyBody, Unparsable} \cup Pages
  /\ fetches' = fetches + 1
  /\ pc' = "fetched"
  /\ UNCHANGED <<version, date, file, last, prev, parses, updates, writes>>

\* if html: version, date = parse_content(html)
Parse ==
  /\ ParseGuard
  /\ version' = parse_content(html)[1]
  /\ date' = parse_content(html)[2]
  /\ parses' = parses + 1
  /\ pc' = "parsed"
  /\ UNCHANGED <<html, file, last, prev, fetches, updates, writes>>

\* if version or date: update_readme(README_PATH, version, date)
UpdateScraped ==
  /\ ScrapedGuard
  /\ CallUpdate("scraped", version, date)
  /\ pc' = "done"
  /\ UNCHANGED <<html, version, date, fetches, parses>>

\* else: update_readme(README_PATH, None, None)
UpdateNoInfo ==
  /\ NoInfoGuard
  /\ CallUpdate("noinfo", None, None)
  /\ pc' = "done"
  /\ UNCHANGED <<html, version, date, fetches, parses>>

\* The else branch of `if html:` without the fallback call: the README is left alone.
SkipNoFetch ==
  /\ NoFetchGuard
  /\ pc' = "done"
  /\ UNCHANGED <<html, version, date, file, last, prev, fetches, parses, updates, writes>>

\* The else branch of `if html:`: update_readme(README_PATH, None, None)
UpdateNoFetch ==
  /\ NoFetchGuard
  /\ CallUpdate("nofetch", None, None)
  /\ pc' = "done"
  /\ UNCHANGED <<html, version, date, fetches, parses>>

Next == Fetch \/ Parse \/ UpdateScraped \/ UpdateNoInfo \/ UpdateNoFetch

\* One run of the script.
Spec == Init /\ [][Next]_vars

-----------------------------------------------------------------------------
(* update_readme called twice in a row with the same arguments             *)

\* Versions and dates parse_content returns on Pages.
ScrapedVersions == {parse_content(h)[1] : h \in Pages}

ScrapedDates == {parse_content(h)[2] : h \in Pages}

InitUpdate ==
  /\ pc = "call1"
  /\ html = FetchFailed
  /\ version = None
  /\ date = None
  /\ file \in Docs \cup {NoFile}
  /\ last = NoCall
  /\ prev = NoCall
  /\ fetches = 0
  /\ parses = 0
  /\ updates = 0
  /\ writes = 0

FirstCall ==
  /\ pc = "call1"
  /\ \E v \in ScrapedVersions, d \in ScrapedDates :
       /\ version' = v
       /\ date' = d
       /\ CallUpdate("first", v, d)
  /\ pc' = "call2"
  /\ UNCHANGED <<html, fetches, parses>>

RepeatCall ==
  /\ pc = "call2"
  /\ CallUpdate("repeat", version, date)
  /\ pc' = "end"
  /\ UNCHANGED <<html, version, date, fetches, parses>>

NextUpdate == FirstCall \/ RepeatCall

SpecUpdate == InitUpdate /\ [][NextUpdate]_vars

-----------------------------------------------------------------------------
(* Reading a document back                                                 *)

\* The pairs <<s, e>>: a start marker at s and the nearest end marker after it at e.
NearestPairs(doc, start, end) ==
  { <<s, IndexFrom(doc, end, s + 1)>> :
      s \in {i \in 1..Len(doc) : doc[i] = start /\ IndexFrom(doc, end, i + 1) # 0} }

HasPair(doc, start, end) == NearestPairs(doc, start, end) # {}

\* The texts found between a start marker and the nearest end marker after it.
RegionTexts(doc, start, end) ==
  { SubSeq(doc, p[1] + 1, p[2] - 1) : p \in NearestPairs(doc, start, end) }

\* Position i lies strictly between a start marker and the nearest end marker after it.
Inside(doc, i) ==
  \E m \in MarkerPairs : \E p \in NearestPairs(doc, m[1], m[2]) : p[1] < i /\ i < p[2]

\* No marker lies inside a region: the regions of the document do not overlap.
Flat(doc) == \A i \in 1..Len(doc) : Inside(doc, i) => doc[i] \notin Markers

\* The document without the text of its regions: the markers and all text outside.
RECURSIVE SkeletonFrom(_, _)
SkeletonFrom(doc, i) ==
  IF i > Len(doc) THEN <<>>
  ELSE (IF Inside(doc, i) THEN <<>> ELSE <<doc[i]>>) \o SkeletonFrom(doc, i + 1)

Skeleton(doc) == SkeletonFrom(doc, 1)

IsMarker(t) == t \in Markers

\* The markers of the document, in order.
MarkerSeq(doc) == SelectSeq(doc, IsMarker)

Called == last.site # "none"

\* The file holds what the last call computed (it wrote it, or nothing changed).
Stored == ~last.failed => file = last.computed

\* " text ", the padding of the primary version and date regions.
Padded(text) == <<" ">> \o text \o <<" ">>

\* The date the last call put into the date region.
UsedDate == IF Truthy(last.d) THEN last.d ELSE last.now

-----------------------------------------------------------------------------
(* Claims                                                                  *)

\* C1: when the text computed by update_readme equals the text it read, the call
\* opens nothing for writing, returns False and leaves the file as it was.
NoOpNeverWrites ==
  (Called /\ last.orig # NoFile /\ last.computed = last.orig)
    => /\ ~last.wrote
       /\ ~last.failed
       /\ last.ret = FALSE
       /\ file = last.orig

\* C1 happens: a repeated call finds the date region already up to date.
NoOpWitness ==
  /\ last.site = "repeat"
  /\ HasPair(last.orig, DATE_START_MARKER, DATE_END_MARKER)
  /\ last.computed = last.orig
  /\ ~last.wrote

\* C2: a second call with the same version and a date present, after a first call
\* that stored its result, computes the text the first call left, writes nothing and
\* returns False.
IdempotentSecondRun ==
  (last.site = "repeat" /\ prev.existed /\ ~prev.failed /\ Truthy(last.d))
    => /\ last.v = prev.v /\ last.d = prev.d
       /\ last.orig = prev.computed
       /\ last.computed = last.orig
       /\ ~last.wrote
       /\ ~last.failed
       /\ last.ret = FALSE
       /\ file = prev.computed

\* C2 happens: the first call rewrote version and date regions, the second ran.
IdempotentWitness ==
  /\ last.site = "repeat"
  /\ prev.wrote
  /\ Truthy(last.v)
  /\ Truthy(last.d)
  /\ HasPair(prev.orig, VERSION_START_MARKER, VERSION_END_MARKER)
  /\ HasPair(prev.orig, DATE_START_MARKER, DATE_END_MARKER)

\* C3 as stated: given a document with a primary version region (regions not
\* overlapping) and a version, the call rewrites that region to " version " and
\* nothing else in the document changes.
OnlyVersionRegionChanges ==
  (/\ Called /\ last.existed /\ Truthy(last.v)
   /\ Flat(last.orig)
   /\ HasPair(last.orig, VERSION_START_MARKER, VERSION_END_MARKER))
    => last.computed =
         RegionSub(last.orig, VERSION_START_MARKER, VERSION_END_MARKER, Padded(last.v))

\* C3 amended: given a document with a primary version region (regions not
\* overlapping) and a version, every primary version region reads " version "
\* afterwards, and nothing outside the primary version, compatibility and date
\* regions changes: the markers and all text outside the regions stay as they were.
VersionRegionFrame ==
  (/\ Called /\ last.existed /\ Truthy(last.v)
   /\ Flat(last.orig)
   /\ HasPair(last.orig, VERSION_START_MARKER, VERSION_END_MARKER))
    => /\ RegionTexts(last.computed, VERSION_START_MARKER, VERSION_END_MARKER)
            = {Padded(last.v)}
       /\ Skeleton(last.computed) = Skeleton(last.orig)
       /\ Stored

\* C3 happens: a version is written into a document with text around the region.
VersionRegionWitness ==
  /\ Called /\ last.wrote /\ Truthy(last.v)
  /\ Flat(last.orig)
  /\ HasPair(last.orig, VERSION_START_MARKER, VERSION_END_MARKER)
  /\ HasPair(last.orig, DATE_START_MARKER, DATE_END_MARKER)

\* C4 as stated: on a well-formed page without an element at the XPath whose text
\* holds a V<dotted-digits> token, parse_content returns "V" + that token.
FallbackScanFindsVersion ==
  (/\ pc \in {"parsed", "done"}
   /\ html.kind = "page"
   /\ ~html.hasElem
   /\ VersionSearch(TextContent(html)) # None)
    => version = <<"V">> \o VersionSearch(TextContent(html))

MissingFileNoWrite ==
  (Called /\ last.orig = NoFile)
    => /\ ~last.existed
       /\ last.computed = NoFile
       /\ last.ret = FALSE
       /\ ~last.wrote
       /\ ~last.failed
       /\ writes = 0
       /\ file = NoFile

\* C7 happens: a run scraped a version and a date and found no file.
MissingFileWitness ==
  /\ pc = "done" /\ last.orig = NoFile
  /\ Truthy(last.v) /\ Truthy(last.d)

\* C8 as stated: for every document and input, the markers are the same, in the same
\* order, after update_readme as before.
SentinelsNeverDestroyed ==
  (Called /\ last.existed) => MarkerSeq(last.computed) = MarkerSeq(last.orig)

\* C8 amended: for every document whose regions do not overlap, and every input, the
\* markers are the same in the same order afterwards and all text outside the regions
\* is unchanged; and a document without any start/end pair is never changed or
\* written.
SentinelsKeptWhenFlat ==
  (Called /\ last.existed)
    => /\ Flat(last.orig)
            => /\ MarkerSeq(last.computed) = MarkerSeq(last.orig)
               /\ Skeleton(last.computed) = Skeleton(last.orig)
               /\ Flat(last.computed)
       /\ (\A m \in MarkerPairs : ~HasPair(last.orig, m[1], m[2]))
            => /\ last.computed = last.orig
               /\ ~last.wrote /\ ~last.failed
               /\ file = last.orig
       /\ Stored

\* C8 happens: a call rewrote two regions of a document whose regions do not overlap.
SentinelsWitness ==
  /\ Called /\ last.wrote /\ Flat(last.orig)
  /\ Truthy(last.v)
  /\ HasPair(last.orig, COMPATIBLE_VERSION_START_MARKER, COMPATIBLE_VERSION_END_MARKER)
  /\ HasPair(last.orig, DATE_START_MARKER, DATE_END_MARKER)

RunOrder ==
  /\ fetches \in {0, 1} /\ parses \in {0, 1} /\ updates \in {0, 1} /\ writes \in {0, 1}
  /\ fetches = 0 <=> pc = "start"
  /\ parses = 1 => (fetches = 1 /\ HtmlTruthy(html))
  /\ updates = 1 <=> pc = "done"
  /\ updates = 1 => (fetches = 1 /\ (parses = 1 <=> HtmlTruthy(html)))
  /\ writes = 1 => updates = 1

\* The position of the run: each step of the script moves it forward.
Rank(p) == CASE p = "start" -> 0 [] p = "fetched" -> 1 [] p = "parsed" -> 2 [] OTHER -> 3

\* A statement of the script can run: each action of Next is its guard and an effect
\* that is always possible.
CanStep == FetchGuard \/ ParseGuard \/ NoFetchGuard \/ ScrapedGuard \/ NoInfoGuard

\* C10: every run is sequential and one-shot: RunOrder holds throughout, every step
\* moves the run forward and leaves no counter lower, update_readme is called only
\* after the fetch and after the parse of a fetched body, and the run is never stuck
\* before its end, so that it reaches its end in at most three steps.
OneShotRun ==
  /\ []RunOrder
  /\ [](pc = "done" \/ CanStep)
  /\ [][/\ Rank(pc') > Rank(pc)
        /\ fetches' >= fetches /\ parses' >= parses
        /\ updates' >= updates /\ writes' >= writes
        /\ updates' > updates => (fetches = 1 /\ (HtmlTruthy(html) => parses = 1))
        /\ parses' > parses => fetches = 1]_vars

\* C10 happens: a run fetched, parsed, called update_readme and wrote.
OneShotWitness ==
  /\ pc = "done" /\ fetches = 1 /\ parses = 1 /\ updates = 1 /\ writes = 1
  /\ last.wrote

====
